---- MODULE Spec2Model ----
(***************************************************************************)
(* Model of process_management.py: one invocation of the program (the      *)
(* "parent") running one of its fork/exec/wait scenarios, the children it  *)
(* forks, the kernel's process table they live in, and a second invocation *)
(* running task4_inspect_proc against any pid of that table.               *)
(* Model of system_startup_simulation.py: its main block, the three        *)
(* service processes it starts and joins, and the records they log.        *)
(***************************************************************************)
EXTENDS Integers, Sequences, FiniteSets, TLC

\* ------------------------------------------------------------------ bounds
MaxN == 2        \* largest N given to task1_create_processes
MaxCmds == 2     \* longest command list given to task2_execute_commands
NPool == 3       \* pids the kernel can hand to new processes
MaxFds == 2      \* most descriptors a listing of /proc/<pid>/fd returns

\* --------------------------------------------------------------- constants
InitPid == 1                       \* the system reaper orphans are given to
ParentPid == InitPid + 1           \* os.getpid() of the invocation
PoolPids == (ParentPid + 1)..(ParentPid + NPool)
Pids == InitPid..(ParentPid + NPool)
MaxNice == 19                      \* the kernel clamps niceness here
NiceStart == {0, 5}                \* niceness the program may be started with
nice_values == <<19, 10, 0>>
Cmds == {"ls", "nosuch", "noperm", ""}

VARIABLES
  pc,          \* the parent's position in the scenario it runs
  n,           \* task1: N; task2: len(commands)
  i,           \* the parent's loop index (0-based, as range() counts)
  child_pids,  \* task1: the pids recorded by the parent, in fork order
  reports,     \* task1: the (pid, status) pairs the parent printed, in order
  proc,        \* the process table: pid -> process record
  oppid,       \* orphan demo: the two os.getppid() values the child printed
  insp,        \* the inspecting invocation (task4_inspect_proc)
  task,        \* the task function the invocation runs
  pid,         \* the parent's local `pid`: what its latest os.fork() returned
  waited,      \* what os.wait() returned to the parent since its latest fork,
               \* and for which command string that child had been forked
  exits,       \* history: task1's children in the order they terminated
  reaped,      \* history: pids the parent's wait calls have reaped
  recycled,    \* history: reaped pids a later fork has handed out again
  nforks,      \* history: successful os.fork() calls of the parent
  args,        \* main: the namespace parse_args() returned
  sim          \* system_startup_simulation.py: its main process, its
               \* service processes and the records they logged

vars == <<pc, n, i, child_pids, reports, proc, oppid, insp, task, pid, waited,
          exits, reaped, recycled, nforks, args, sim>>

\* -------------------------------------------------------- process records
FreeProc == [st |-> "free", ppid |-> 0, cpc |-> "-", status |-> 0,
             nice |-> 0, cmd |-> "-", inc |-> 0]

\* The status word os.wait()/os.waitpid() return: exit code in the high
\* byte, terminating signal in the low byte.
WaitStatus(code, sig) == code * 256 + sig

ExitCode(status) == status \div 256

\* The child as os.fork() leaves it: a copy of the parent (its niceness
\* included) that starts at the child branch `cp`.
NewProc(cp, cmd, inc) ==
  [st |-> "running", ppid |-> ParentPid, cpc |-> cp, status |-> 0,
   nice |-> proc[ParentPid].nice, cmd |-> cmd, inc |-> inc]

FreePids == {p \in PoolPids : proc[p].st = "free"}

Children(par) == {p \in Pids : proc[p].st # "free" /\ proc[p].ppid = par}

ZombieChildren(par) == {p \in Children(par) : proc[p].st = "zombie"}

\* The parent ignores SIGCHLD: the kernel drops a child at once when it ends.
Terminate_AutoReaped(tab, p, status, how) == [tab EXCEPT ![p] = FreeProc]

\* A terminated process stays in the table as a zombie until it is waited on.
Terminate(tab, p, status, how) ==
  [tab EXCEPT ![p].st = "zombie", ![p].status = status, ![p].cpc = how]

\* The children of an exiting process are given to the system reaper.
Reparent(tab, par) ==
  [p \in Pids |-> IF tab[p].st # "free" /\ tab[p].ppid = par
                  THEN [tab[p] EXCEPT !.ppid = InitPid]
                  ELSE tab[p]]

\* The parent process ends (os._exit, or an exception nobody catches).
ParentEnds(tab, status) ==
  Reparent(Terminate(tab, ParentPid, status, "-"), ParentPid)

NoWait == [pid |-> 0, status |-> 0, cmd |-> "-"]

IdleInsp == [pc |-> "idle", target |-> 0, chk |-> "-", status |-> "unread",
             state |-> "-", exe |-> "unread", nfds |-> -1, fdres |-> <<>>,
             err |-> "-", hist |-> "-"]

\* ------------------------------------------------- the parsed command line
\* The parsed arguments: an option that was not given is the empty set (None),
\* one that was given is the set of its value.
Given(S) == {{}} \cup {{v} : v \in S}

ArgSpace ==
  [task1 : Given(0..MaxN), task2 : Given(1..MaxCmds), zombie : BOOLEAN,
   orphan : BOOLEAN, inspect : Given(Pids), priority : BOOLEAN]

\* The namespace of a command line that names no option: the defaults.
NoArgs == [task1 |-> {}, task2 |-> {}, zombie |-> FALSE, orphan |-> FALSE,
           inspect |-> {}, priority |-> FALSE]

\* A task function is entered: called on its own, or by the dispatch of main
\* once the command line is parsed.
AtEntry == pc \in {"start", "parsed"}

\* ------------------------------------------- system_startup_simulation.py
services == <<"NetworkService", "DatabaseService", "LoggingService">>

Services == 1..Len(services)

\* The script before its main block runs: no Process object exists, nothing
\* is logged.
SimInit == [mpc |-> "boot", k |-> 1, svc |-> [s \in Services |-> "new"],
            log |-> <<>>]

Init ==
  /\ pc = "start"
  /\ n = 0
  /\ i = 0
  /\ child_pids = <<>>
  /\ reports = <<>>
  /\ \E nc \in NiceStart :
       proc = [p \in Pids |->
                 IF p = InitPid
                 THEN [FreeProc EXCEPT !.st = "running"]
                 ELSE IF p = ParentPid
                 THEN [FreeProc EXCEPT !.st = "running", !.ppid = InitPid,
                                       !.nice = nc]
                 ELSE FreeProc]
  /\ oppid = [child |-> 0, first |-> 0, second |-> 0]
  /\ insp = IdleInsp
  /\ task = "none"
  /\ pid = 0
  /\ waited = NoWait
  /\ exits = <<>>
  /\ reaped = {}
  /\ recycled = {}
  /\ nforks = 0
  /\ args = NoArgs
  /\ sim = SimInit

\* ------------------------------------------------------------ fork / wait
\* os.fork() in the parent: the kernel picks any free pid for the child.
Fork(c, cp, cmd, inc) ==
  /\ c \in FreePids
  /\ proc' = [proc EXCEPT ![c] = NewProc(cp, cmd, inc)]
  /\ pid' = c
  /\ waited' = NoWait
  /\ recycled' = recycled \cup ({c} \cap reaped)
  /\ nforks' = nforks + 1

\* os.fork() raises OSError; nobody catches it, so the invocation ends with
\* a traceback and whatever children it has are left to the system reaper.
ForkFails ==
  /\ pc' = "raised"
  /\ proc' = ParentEnds(proc, WaitStatus(1, 0))
  /\ UNCHANGED <<n, i, child_pids, reports, oppid, insp, task, pid, waited,
               exits, reaped, recycled, nforks, args, sim>>

\* A wait call of the parent returns (c, status) for zombie child c: the
\* slot is freed.
Reap(c) ==
  /\ proc' = [proc EXCEPT ![c] = FreeProc]
  /\ reaped' = reaped \cup {c}
  /\ recycled' = recycled \ {c}

\* os.wait() returns for c, one of the caller's terminated children.
WaitAny(c) ==
  /\ Reap(c)
  /\ waited' = [pid |-> c, status |-> proc[c].status, cmd |-> proc[c].cmd]

\* os.waitpid(pid, 0) and os.wait() raise ChildProcessError when there is
\* nothing to wait for; nobody catches it.
WaitRaises ==
  /\ pc' = "raised"
  /\ proc' = ParentEnds(proc, WaitStatus(1, 0))
  /\ UNCHANGED <<n, i, child_pids, reports, oppid, insp, task, pid, waited,
               exits, reaped, recycled, nforks, args, sim>>

\* -------------------------------------------------- task1_create_processes
task1_create_processes(N) ==
  /\ AtEntry
  /\ task' = "task1"
  /\ n' = N
  /\ i' = 0
  /\ pc' = IF N > 0 THEN "t1_fork" ELSE "done"
  /\ UNCHANGED <<child_pids, reports, proc, oppid, insp, pid, waited, exits,
               reaped, recycled, nforks, sim>>

\* The list is overwritten with the newest pid instead of extended.
RecordChild_Overwrite(pids, c) == <<c>>

\* child_pids.append(pid)
RecordChild(pids, c) == Append(pids, c)

\* One iteration of the fork loop, parent side: fork, record the pid.
Task1Fork ==
  /\ pc = "t1_fork"
  /\ \E c \in PoolPids :
       /\ Fork(c, "t1_child", "-", i + 1)
       /\ child_pids' = RecordChild(child_pids, c)
  /\ i' = i + 1
  /\ pc' = IF i + 1 < n THEN "t1_fork"
           ELSE "t1_wait"
  /\ UNCHANGED <<n, reports, oppid, insp, task, exits,
               reaped, args, sim>>

Task1ForkFails == pc = "t1_fork" /\ ForkFails

\* The recorded pids are waited for newest first.
Task1WaitTarget_Reversed == child_pids[Len(child_pids) - Len(reports)]

\* One iteration of the wait loop: os.waitpid(child_pid, 0) on the next
\* recorded pid, in the order they were recorded.
Task1WaitTarget == child_pids[Len(reports) + 1]

\* The wait loop has iterations left after this one.
Task1MoreWaits == Len(reports) + 1 < Len(child_pids)

Task1Wait ==
  /\ pc = "t1_wait"
  /\ LET c == Task1WaitTarget IN
       IF c \notin Children(ParentPid)
       THEN WaitRaises
       ELSE /\ proc[c].st = "zombie"
            /\ Reap(c)
            /\ reports' = Append(reports, <<c, proc[c].status>>)
            /\ pc' = IF Task1MoreWaits THEN "t1_wait" ELSE "done"
            /\ UNCHANGED <<n, i, child_pids, oppid, insp, task, pid, waited,
                         exits, nforks, args, sim>>

\* The child branch has no os._exit: the child leaves the branch and goes on
\* in the loop it was forked in, as a copy of the parent.
BranchEnd_FallsThrough(tab, c) == [tab EXCEPT ![c].cpc = "loop"]

\* The last statement of the child branch of a fork loop: os._exit(0).
BranchEnd(tab, c) == Terminate(tab, c, WaitStatus(0, 0), "_exit")

\* The child of task1: sleeps i+1 seconds, prints, os._exit(0).
Task1ChildExit ==
  \E c \in PoolPids :
    /\ proc[c].st = "running"
    /\ proc[c].cpc = "t1_child"
    /\ proc' = BranchEnd(proc, c)
    /\ exits' = Append(exits, c)
    /\ UNCHANGED <<pc, n, i, child_pids, reports, oppid, insp, task, pid,
                 waited, reaped, recycled, nforks, args, sim>>

\* -------------------------------------------------- task2_execute_commands
\* What os.execvp(cmd_str.split()[0], ...) does for a command string.
ExecOutcome(cmd) ==
  CASE cmd = "" -> "IndexError"            \* split() gives [], [0] fails
    [] cmd = "nosuch" -> "FileNotFoundError"
    [] cmd = "noperm" -> "PermissionError"
    [] OTHER -> "replaced"

\* Termination statuses of a program that replaced the child's image.
ImageStatuses == {WaitStatus(0, 0), WaitStatus(2, 0), WaitStatus(0, 9)}

\* `ncmds` is len(commands); the command strings themselves are drawn when
\* the loop reaches them.
task2_execute_commands(ncmds) ==
  /\ AtEntry
  /\ task' = "task2"
  /\ n' = ncmds
  /\ i' = 0
  /\ pc' = IF ncmds > 0 THEN "t2_fork" ELSE "done"
  /\ UNCHANGED <<child_pids, reports, proc, oppid, insp, pid, waited, exits,
               reaped, recycled, nforks, sim>>

\* The wait is moved behind the loop: the commands are forked as a batch.
Task2AfterFork_Batched == IF nforks + 1 < n THEN "t2_fork" ELSE "t2_wait"

\* The parent branch of the loop body: os.wait() before the next command.
Task2AfterFork == "t2_wait"

Task2Fork ==
  /\ pc = "t2_fork"
  /\ \E c \in PoolPids, cmd \in Cmds : Fork(c, "t2_exec", cmd, 0)
  /\ pc' = Task2AfterFork
  /\ UNCHANGED <<n, i, child_pids, reports, oppid, insp, task, exits,
               reaped, args, sim>>

Task2ForkFails == pc = "t2_fork" /\ ForkFails

\* os.wait(): returns for any terminated child of the caller.
Task2Wait ==
  /\ pc = "t2_wait"
  /\ IF Children(ParentPid) = {}
     THEN WaitRaises
     ELSE /\ \E c \in ZombieChildren(ParentPid) : WaitAny(c)
          /\ i' = i + 1
          /\ pc' = IF i + 1 < n THEN "t2_fork" ELSE "done"
          /\ UNCHANGED <<n, child_pids, reports, oppid, insp, task, pid, exits,
                       nforks, args, sim>>

\* The handler leaves with os._exit(0).
NotFoundExit_Zero == WaitStatus(0, 0)

\* os._exit(1) in the FileNotFoundError handler.
NotFoundExit == WaitStatus(1, 0)

\* The handler names Exception, prints and does not exit: the child leaves
\* the try block and goes on in the command loop as a copy of the parent.
ExecFails_Swallowed(tab, c, exc) ==
  IF exc = "FileNotFoundError"
  THEN Terminate(tab, c, NotFoundExit, "_exit")
  ELSE [tab EXCEPT ![c].cpc = "t2_fork"]

\* The try block raised `exc` in child c. FileNotFoundError is caught:
\* print, os._exit(1). Any other exception is not named by the except
\* clause: it leaves task2_execute_commands and main, and the interpreter
\* ends the child with a traceback and exit code 1.
ExecFails(tab, c, exc) ==
  IF exc = "FileNotFoundError"
  THEN Terminate(tab, c, NotFoundExit, "_exit")
  ELSE Terminate(tab, c, WaitStatus(1, 0), "exception")

\* The child's try block: execvp either replaces the image, or raises
\* FileNotFoundError (caught: print, os._exit(1)), or raises something the
\* except clause does not name, which leaves the function and main and ends
\* the interpreter with a traceback and exit code 1.
Task2ChildExec ==
  \E c \in PoolPids :
    /\ proc[c].st = "running"
    /\ proc[c].cpc = "t2_exec"
    /\ proc' = IF ExecOutcome(proc[c].cmd) = "replaced"
               THEN [proc EXCEPT ![c].cpc = "image"]
               ELSE ExecFails(proc, c, ExecOutcome(proc[c].cmd))
    /\ UNCHANGED <<pc, n, i, child_pids, reports, oppid, insp, task, pid,
                 waited, exits, reaped, recycled, nforks, args, sim>>

\* The program that replaced the image ends, by exit or by a signal.
Task2ImageExit ==
  \E c \in PoolPids, s \in ImageStatuses :
    /\ proc[c].st = "running"
    /\ proc[c].cpc = "image"
    /\ proc' = Terminate(proc, c, s, "image")
    /\ UNCHANGED <<pc, n, i, child_pids, reports, oppid, insp, task, pid,
                 waited, exits, reaped, recycled, nforks, args, sim>>

\* ---------------------------------------------------- task3_zombie_process
task3_zombie_process ==
  /\ AtEntry
  /\ task' = "zombie"
  /\ pc' = "z_fork"
  /\ UNCHANGED <<n, i, child_pids, reports, proc, oppid, insp, pid, waited,
               exits, reaped, recycled, nforks, sim>>

ZombieFork ==
  /\ pc = "z_fork"
  /\ \E c \in PoolPids : Fork(c, "z_child", "-", 0)
  /\ pc' = "z_sleep"
  /\ UNCHANGED <<n, i, child_pids, reports, oppid, insp, task, exits,
               reaped, args, sim>>

ZombieForkFails == pc = "z_fork" /\ ForkFails

\* The child prints and calls os._exit(0) at once.
ZombieChildExit ==
  \E c \in PoolPids :
    /\ proc[c].st = "running"
    /\ proc[c].cpc = "z_child"
    /\ proc' = Terminate(proc, c, WaitStatus(0, 0), "_exit")
    /\ UNCHANGED <<pc, n, i, child_pids, reports, oppid, insp, task, pid,
                 waited, exits, reaped, recycled, nforks, args, sim>>

\* time.sleep(30) returns in the parent.
ZombieSleepEnds ==
  /\ pc = "z_sleep"
  /\ pc' = "z_wait"
  /\ UNCHANGED <<n, i, child_pids, reports, proc, oppid, insp, task, pid,
               waited, exits, reaped, recycled, nforks, args, sim>>

\* os.wait(), then the "zombie is gone" message.
ZombieWait ==
  /\ pc = "z_wait"
  /\ IF Children(ParentPid) = {}
     THEN WaitRaises
     ELSE /\ \E c \in ZombieChildren(ParentPid) : WaitAny(c)
          /\ pc' = "done"
          /\ UNCHANGED <<n, i, child_pids, reports, oppid, insp, task, pid, exits,
                       nforks, args, sim>>

\* ---------------------------------------------------- task3_orphan_process
task3_orphan_process ==
  /\ AtEntry
  /\ task' = "orphan"
  /\ pc' = "o_fork"
  /\ UNCHANGED <<n, i, child_pids, reports, proc, oppid, insp, pid, waited,
               exits, reaped, recycled, nforks, sim>>

OrphanFork ==
  /\ pc = "o_fork"
  /\ \E c \in PoolPids : Fork(c, "o_first", "-", 0)
  /\ pc' = "o_sleep"
  /\ UNCHANGED <<n, i, child_pids, reports, oppid, insp, task, exits,
               reaped, args, sim>>

OrphanForkFails == pc = "o_fork" /\ ForkFails

\* The parent prints, sleeps one second and calls os._exit(0) without
\* waiting: its child is handed to the system reaper.
OrphanParentExit ==
  /\ pc = "o_sleep"
  /\ pc' = "exited"
  /\ proc' = ParentEnds(proc, WaitStatus(0, 0))
  /\ UNCHANGED <<n, i, child_pids, reports, oppid, insp, task, pid, waited,
               exits, reaped, recycled, nforks, args, sim>>

\* The child's first print: os.getpid() and os.getppid().
OrphanChildFirst ==
  \E c \in PoolPids :
    /\ proc[c].st = "running"
    /\ proc[c].cpc = "o_first"
    /\ oppid' = [oppid EXCEPT !.child = c, !.first = proc[c].ppid]
    /\ proc' = [proc EXCEPT ![c].cpc = "o_sleep"]
    /\ UNCHANGED <<pc, n, i, child_pids, reports, insp, task, pid, waited,
                 exits, reaped, recycled, nforks, args, sim>>

\* time.sleep(5) returns in the child; it prints os.getppid() again.
OrphanChildSecond ==
  \E c \in PoolPids :
    /\ proc[c].st = "running"
    /\ proc[c].cpc = "o_sleep"
    /\ oppid' = [oppid EXCEPT !.second = proc[c].ppid]
    /\ proc' = [proc EXCEPT ![c].cpc = "o_report"]
    /\ UNCHANGED <<pc, n, i, child_pids, reports, insp, task, pid, waited,
                 exits, reaped, recycled, nforks, args, sim>>

OrphanChildExit ==
  \E c \in PoolPids :
    /\ proc[c].st = "running"
    /\ proc[c].cpc = "o_report"
    /\ proc' = Terminate(proc, c, WaitStatus(0, 0), "_exit")
    /\ UNCHANGED <<pc, n, i, child_pids, reports, oppid, insp, task, pid,
                 waited, exits, reaped, recycled, nforks, args, sim>>

\* --------------------------------------------- task5_process_prioritization
task5_process_prioritization ==
  /\ AtEntry
  /\ task' = "priority"
  /\ i' = 0
  /\ pc' = "p_fork"
  /\ UNCHANGED <<n, child_pids, reports, proc, oppid, insp, pid, waited, exits,
               reaped, recycled, nforks, sim>>

\* The fork loop is left after its first iteration.
MoreForks_OnlyOne == FALSE

\* The loop `for nice_val in nice_values` has iterations left after this one.
MoreForks == i + 1 < Len(nice_values)

PriorityFork ==
  /\ pc = "p_fork"
  /\ \E c \in PoolPids : Fork(c, "p_nice", "-", nice_values[i + 1])
  /\ IF MoreForks
     THEN i' = i + 1 /\ pc' = "p_fork"
     ELSE i' = 0 /\ pc' = "p_wait"
  /\ UNCHANGED <<n, child_pids, reports, oppid, insp, task, exits,
               reaped, args, sim>>

PriorityForkFails == pc = "p_fork" /\ ForkFails

\* The closing loop makes one wait more than there are children.
MoreWaits_OneTooMany == i + 1 < Len(nice_values) + 1

\* The closing loop stops one wait short.
MoreWaits_Short == i + 1 < Len(nice_values) - 1

\* The closing loop `for _ in nice_values` has iterations left after this one.
MoreWaits == i + 1 < Len(nice_values)

\* One os.wait() of the closing loop `for _ in nice_values`.
PriorityWait ==
  /\ pc = "p_wait"
  /\ IF Children(ParentPid) = {}
     THEN WaitRaises
     ELSE /\ \E c \in ZombieChildren(ParentPid) : WaitAny(c)
          /\ i' = i + 1
          /\ pc' = IF MoreWaits THEN "p_wait" ELSE "done"
          /\ UNCHANGED <<n, child_pids, reports, oppid, insp, task, pid, exits,
                       nforks, args, sim>>

\* os.nice(increment): adds to the caller's niceness, clamped at the top.
Nice(cur, inc) == IF cur + inc > MaxNice THEN MaxNice ELSE cur + inc

PriorityChildNice ==
  \E c \in PoolPids :
    /\ proc[c].st = "running"
    /\ proc[c].cpc = "p_nice"
    /\ proc' = [proc EXCEPT ![c].nice = Nice(proc[c].nice, proc[c].inc),
                            ![c].cpc = "p_work"]
    /\ UNCHANGED <<pc, n, i, child_pids, reports, oppid, insp, task, pid,
                 waited, exits, reaped, recycled, nforks, args, sim>>

\* cpu_bound_task() and the FINISHED print are done: os._exit(0).
PriorityChildExit ==
  \E c \in PoolPids :
    /\ proc[c].st = "running"
    /\ proc[c].cpc = "p_work"
    /\ proc' = BranchEnd(proc, c)
    /\ UNCHANGED <<pc, n, i, child_pids, reports, oppid, insp, task, pid,
                 waited, exits, reaped, recycled, nforks, args, sim>>

\* ------------------------------------------------------ task4_inspect_proc
\* The existence check is left out: the reads are always attempted.
ProcDirExists_Unchecked(target) == TRUE

\* The check looks the pid up among the live (running) processes only.
ProcDirExists_RunningOnly(target) == proc[target].st = "running"

\* os.path.isdir(f"/proc/{pid}"): the pid has a record in the process table.
ProcDirExists(target) == proc[target].st # "free"

\* What the parent's waits and forks have done with a pid so far.
PidHistory(target) ==
  IF target \notin reaped THEN "never"
  ELSE IF target \in recycled THEN "recycled"
  ELSE "reaped"

\* Entry and existence check: without a record the function prints
\* "Process with PID ... does not exist" and returns, reading nothing.
\* insp.chk and insp.hist remember what the table held at that moment.
task4_inspect_proc(target) ==
  /\ insp.pc = "idle"
  /\ insp' = [IdleInsp EXCEPT
                !.target = target,
                !.chk = proc[target].st,
                !.hist = PidHistory(target),
                !.pc = IF ProcDirExists(target) THEN "status" ELSE "notfound"]

\* The inspection run from another terminal, as the zombie demo asks for,
\* while the parent invocation goes about its scenario.
OtherInvocation ==
  /\ \E target \in Pids : task4_inspect_proc(target)
  /\ UNCHANGED <<pc, n, i, child_pids, reports, proc, oppid, task, pid, waited,
               exits, reaped, recycled, nforks, args, sim>>

\* Any failure inside the function's try block ends the inspection in the
\* one handler `except Exception`: "An error occurred: ...".
InspectError(why) == [insp EXCEPT !.pc = "error", !.err = why]

\* open(f"{proc_dir}/status") and the filtered print of its lines.
InspectStatus ==
  /\ insp.pc = "status"
  /\ insp' = IF proc[insp.target].st = "free"
             THEN InspectError("vanished")
             ELSE [insp EXCEPT !.status = "read",
                               !.state = proc[insp.target].st,
                               !.pc = "exe"]
  /\ UNCHANGED <<pc, n, i, child_pids, reports, proc, oppid, task, pid, waited,
               exits, reaped, recycled, nforks, args, sim>>

\* os.readlink(f"{proc_dir}/exe"): fails when the record is gone, and may
\* fail for a live one (permission, a zombie's released image).
InspectExe ==
  /\ insp.pc = "exe"
  /\ \E ok \in BOOLEAN :
       insp' = IF proc[insp.target].st = "free"
               THEN InspectError("vanished")
               ELSE IF ~ok
               THEN InspectError("denied")
               ELSE [insp EXCEPT !.exe = "read", !.pc = "listfd"]
  /\ UNCHANGED <<pc, n, i, child_pids, reports, proc, oppid, task, pid, waited,
               exits, reaped, recycled, nforks, args, sim>>

\* os.listdir(f"{proc_dir}/fd"): k descriptors are listed.
InspectListFd ==
  /\ insp.pc = "listfd"
  /\ \E ok \in BOOLEAN, k \in 0..MaxFds :
       insp' = IF proc[insp.target].st = "free"
               THEN InspectError("vanished")
               ELSE IF ~ok
               THEN InspectError("denied")
               ELSE [insp EXCEPT !.nfds = k,
                                 !.pc = IF k = 0 THEN "done" ELSE "fds"]
  /\ UNCHANGED <<pc, n, i, child_pids, reports, proc, oppid, task, pid, waited,
               exits, reaped, recycled, nforks, args, sim>>

\* What the loop body records for one listed descriptor: the resolved link,
\* or, from the inner `except Exception`, that descriptor's error.
FdEntry(resolved) == IF resolved THEN "ok" ELSE "err"

\* Without the inner try an unresolvable descriptor ends the listing in the
\* function's outer handler.
AfterFd_Aborts(resolved, seen) ==
  IF ~resolved THEN "error" ELSE IF seen < insp.nfds THEN "fds" ELSE "done"

\* The position of the inspection after the loop body ran for one
\* descriptor: on to the next one, whatever the outcome was.
AfterFd(resolved, seen) == IF seen < insp.nfds THEN "fds" ELSE "done"

\* One iteration of `for fd in fds`: os.readlink on the next listed
\* descriptor, which may have closed (or gone with its process) since.
InspectFd ==
  /\ insp.pc = "fds"
  /\ \E ok \in BOOLEAN :
       LET resolved == ok /\ proc[insp.target].st # "free"
           seen == Len(insp.fdres) + 1
       IN insp' = [insp EXCEPT !.fdres = Append(@, FdEntry(resolved)),
                               !.pc = AfterFd(resolved, seen)]
  /\ UNCHANGED <<pc, n, i, child_pids, reports, proc, oppid, task, pid, waited,
               exits, reaped, recycled, nforks, args, sim>>

\* ------------------------------------------------------------------- main
\* Python's truth of an optional integer or list: None and 0 are false.
Truthy(opt) == \E v \in opt : v # 0

\* args = parser.parse_args(): any combination of the six options.
parse_args ==
  /\ pc = "start"
  /\ pc' = "parsed"
  /\ args' \in ArgSpace
  /\ UNCHANGED <<n, i, child_pids, reports, proc, oppid, insp, task, pid,
               waited, exits, reaped, recycled, nforks, sim>>

\* The if/elif chain of main: the first selector that is true runs. The
\* namespace is local to main and is not read again after the chain.
main ==
  /\ pc = "parsed"
  /\ args' = NoArgs
  /\ LET a == args IN
       IF Truthy(a.task1) THEN \E v \in a.task1 : task1_create_processes(v)
       ELSE IF Truthy(a.task2) THEN \E v \in a.task2 : task2_execute_commands(v)
       ELSE IF a.zombie THEN task3_zombie_process
       ELSE IF a.orphan THEN task3_orphan_process
       ELSE IF Truthy(a.inspect)
       THEN /\ \E v \in a.inspect : task4_inspect_proc(v)
            /\ task' = "inspect"
            /\ pc' = "inspect"
            /\ UNCHANGED <<n, i, child_pids, reports, proc, oppid, pid, waited,
                           exits, reaped, recycled, nforks, sim>>
       ELSE IF a.priority THEN task5_process_prioritization
       ELSE /\ task' = "usage"
            /\ pc' = "usage"
            /\ UNCHANGED <<n, i, child_pids, reports, proc, oppid, insp, pid,
                           waited, exits, reaped, recycled, nforks, sim>>

\* A task function called on its own, without main and its command line.
Call(entry) == pc = "start" /\ entry /\ UNCHANGED args

\* The system reaper waits on the zombies it has been given.
InitReap ==
  \E c \in ZombieChildren(InitPid) :
    /\ proc' = [proc EXCEPT ![c] = FreeProc]
    /\ UNCHANGED <<pc, n, i, child_pids, reports, oppid, insp, task, pid,
                 waited, exits, reaped, recycled, nforks, args, sim>>

\* ------------------------------------------- system_startup_simulation.py
\* The variables of process_management.py, which the script does not touch.
pm_vars == <<pc, n, i, child_pids, reports, proc, oppid, insp, task, pid,
             waited, exits, reaped, recycled, nforks, args>>

\* logging.info(...): one record is emitted; `who` is the service the
\* record is about, or "MainProcess".
Emit(kind, who) == Append(sim.log, <<kind, who>>)

\* logging.info("System boot sequence initiated.")
SimBoot ==
  /\ sim.mpc = "boot"
  /\ sim' = [sim EXCEPT !.log = Emit("boot", "MainProcess"), !.mpc = "start"]
  /\ UNCHANGED pm_vars

\* One iteration of `for service in services`, up to process.start(): the
\* service process exists and runs from here on beside the main process.
SimStart ==
  /\ sim.mpc = "start"
  /\ sim' = [sim EXCEPT !.svc[sim.k] = "spawned", !.mpc = "launched"]
  /\ UNCHANGED pm_vars

\* process.start() raises OSError: nobody catches it, the main block ends
\* with a traceback; the services already started run on.
SimStartFails ==
  /\ sim.mpc = "start"
  /\ sim' = [sim EXCEPT !.mpc = "raised"]
  /\ UNCHANGED pm_vars

\* The rest of the iteration: logging.info(f"Launched {process.name}.")
SimLogLaunched ==
  /\ sim.mpc = "launched"
  /\ sim' = [sim EXCEPT !.log = Emit("Launched", services[sim.k]),
                        !.k = IF sim.k < Len(services) THEN sim.k + 1 ELSE 1,
                        !.mpc = IF sim.k < Len(services) THEN "start"
                                ELSE "announce"]
  /\ UNCHANGED pm_vars

\* logging.info("All services launched. ...")
SimAllLaunched ==
  /\ sim.mpc = "announce"
  /\ sim' = [sim EXCEPT !.log = Emit("all launched", "MainProcess"),
                        !.mpc = "join"]
  /\ UNCHANGED pm_vars

\* join(0): the call returns at once, whether the process has ended or not.
JoinReturns_NoWait(s) == TRUE

\* process.join() returns once the service process has terminated.
JoinReturns(s) == sim.svc[s] = "exited"

\* One iteration of `for process in processes: process.join()`.
SimJoin ==
  /\ sim.mpc = "join"
  /\ JoinReturns(sim.k)
  /\ sim' = [sim EXCEPT !.k = IF sim.k < Len(services) THEN sim.k + 1 ELSE 1,
                        !.mpc = IF sim.k < Len(services) THEN "join"
                                ELSE "final"]
  /\ UNCHANGED pm_vars

\* logging.info("All services have completed. System is shutting down.")
SimShutdown ==
  /\ sim.mpc = "final"
  /\ sim' = [sim EXCEPT !.log = Emit("shutdown", "MainProcess"),
                        !.mpc = "exit"]
  /\ UNCHANGED pm_vars

\* system_service, first statement: logging.info("Service ... started.")
ServiceStarted(s) ==
  /\ sim.svc[s] = "spawned"
  /\ sim' = [sim EXCEPT !.log = Emit("started", services[s]),
                        !.svc[s] = "working"]
  /\ UNCHANGED pm_vars

\* The random sleep is over: logging.info("Service ... finished in ...")
ServiceFinished(s) ==
  /\ sim.svc[s] = "working"
  /\ sim' = [sim EXCEPT !.log = Emit("finished", services[s]),
                        !.svc[s] = "returning"]
  /\ UNCHANGED pm_vars

\* system_service returns and the service process terminates.
ServiceExit(s) ==
  /\ sim.svc[s] = "returning"
  /\ sim' = [sim EXCEPT !.svc[s] = "exited"]
  /\ UNCHANGED pm_vars

\* ------------------------------------------------------------------ claims
Distinct(seq) ==
  \A j, k \in 1..Len(seq) : j # k => seq[j] # seq[k]

ReportedPids == {reports[k][1] : k \in 1..Len(reports)}

RecordedPids == {child_pids[k] : k \in 1..Len(child_pids)}

PoolIsFree == \A p \in PoolPids : proc[p].st = "free"

\* C1: in bulk spawn every pid a fork returned is in child_pids before the
\* next fork (so the list is as long as the number of forks made, and never
\* longer than N), the recorded pids are pairwise distinct, and when the
\* parent prints its final message it has forked exactly N children and
\* printed exactly N termination reports, for pairwise distinct pids that are
\* exactly the recorded ones.
Thm_C1_BulkSpawnReports ==
  task = "task1" =>
    /\ Len(child_pids) = nforks
    /\ nforks <= n
    /\ Distinct(child_pids)
    /\ Len(reports) <= Len(child_pids)
    /\ pc \in {"t1_wait", "done"} => nforks = n
    /\ pc = "done" =>
         /\ Len(reports) = n
         /\ Cardinality(ReportedPids) = n
         /\ ReportedPids = RecordedPids

Wit_C1_TwoReported ==
  /\ task = "task1"
  /\ pc = "done"
  /\ n >= 2
  /\ Len(reports) = n
  /\ nforks = n

\* C2: in bulk spawn the k-th termination report is for the k-th forked pid,
\* whatever the order in which the children terminated.
Thm_C2_ReportsInSpawnOrder ==
  task = "task1" =>
    \A k \in 1..Len(reports) : reports[k][1] = child_pids[k]

\* The second child terminated before the first, and both are reported.
Wit_C2_LaterChildExitedFirst ==
  /\ task = "task1"
  /\ pc = "done"
  /\ Len(reports) >= 2
  /\ Len(exits) >= 2
  /\ exits[1] = child_pids[2]
  /\ exits[2] = child_pids[1]

\* C3: when the parent of bulk spawn, spawn+exec, the zombie demo or the
\* priority demo reaches the scenario's final message, no process it forked
\* is still running or a zombie: every one of them has been reaped by one of
\* its wait calls.
Thm_C3_AllReapedAtFinalMessage ==
  (pc = "done" /\ task \in {"task1", "task2", "zombie", "priority"}) =>
    /\ Children(ParentPid) = {}
    /\ PoolIsFree
    /\ nforks > 0 => reaped # {}

Wit_C3_PriorityDone ==
  /\ task = "priority"
  /\ pc = "done"
  /\ nforks = Len(nice_values)
  /\ reaped # {}

\* The child was forked for a command name that cannot be resolved.
Unresolved(c) == ExecOutcome(proc[c].cmd) = "FileNotFoundError"

\* Such a child, once it has ended, carries exit code 1 and no signal.
C4_EndsWithOne ==
  \A c \in PoolPids :
    (proc[c].st = "zombie" /\ proc[c].cpc = "_exit" /\ Unresolved(c)) =>
      (ExitCode(proc[c].status) = 1 /\ proc[c].status % 256 = 0)

\* The step that takes such a child out of the table is the parent's wait,
\* which returns its status and moves on in the command loop.
C4_WaitGoesOn ==
  (pc = "t2_wait" /\ proc[pid].st = "zombie" /\ Unresolved(pid)
     /\ proc'[pid] # proc[pid]) =>
    /\ pc' = IF i + 1 < n THEN "t2_fork" ELSE "done"
    /\ i' = i + 1
    /\ waited' = [pid |-> pid, status |-> WaitStatus(1, 0), cmd |-> proc[pid].cmd]
    /\ proc'[pid].st = "free"
    /\ proc'[ParentPid].st = "running"

\* C4: in spawn+exec a child whose command name cannot be resolved ends with
\* exit code 1 (and no signal); the parent's wait for it returns that status
\* without raising, and the parent goes on with the next command, or to its
\* final message after the last one.
Thm_C4_ExecNotFound ==
  /\ [](task = "task2" => C4_EndsWithOne)
  /\ [][C4_WaitGoesOn]_vars

\* The parent reaped the child of an unresolvable first command with exit
\* code 1 and stands before the fork for the second command.
Wit_C4_NextCommandAfterNotFound ==
  /\ task = "task2"
  /\ pc = "t2_fork"
  /\ i = 1
  /\ waited.cmd = "nosuch"
  /\ ExitCode(waited.status) = 1

\* C5: spawn+exec is serialized: the parent never has more than one unreaped
\* child, it has none when it forks, the child it waits for is the one it
\* just forked, the number of forks never runs more than one ahead of the
\* number of completed waits, and the pid its wait-any call returns is the
\* pid its latest fork returned.
Thm_C5_Serialized ==
  task = "task2" =>
    /\ Cardinality(Children(ParentPid)) <= 1
    /\ pc = "t2_fork" => (Children(ParentPid) = {} /\ nforks = i)
    /\ pc = "t2_wait" => (Children(ParentPid) = {pid} /\ nforks = i + 1)
    /\ pc = "done" => (Children(ParentPid) = {} /\ nforks = n /\ i = n)
    /\ waited.pid # 0 => waited.pid = pid

\* Two commands done one after the other, the second child under the pid the
\* first one had.
Wit_C5_TwoCommandsDone ==
  /\ task = "task2"
  /\ pc = "done"
  /\ nforks = 2
  /\ waited.pid = pid
  /\ reaped = {pid}

\* A step that ends the child leaves it a zombie.
C6_ExitMakesZombie ==
  (pid # 0 /\ proc[pid].st = "running" /\ proc'[pid].st # "running") =>
    proc'[pid].st = "zombie"

\* The only step that takes the zombie away is the wait after the sleep.
C6_ZombieUntilWait ==
  (pid # 0 /\ proc[pid].st = "zombie" /\ proc'[pid].st # "zombie") =>
    /\ pc = "z_wait"
    /\ pc' = "done"
    /\ proc'[pid].st = "free"
    /\ pid \in reaped'

\* At the final message the child has been reaped by the parent's wait.
C6_GoneOnlyAfterReap ==
  pc = "done" => (pid \in reaped /\ waited.pid = pid /\ proc[pid].st = "free")

\* C6: in the zombie demo the child is a zombie from the moment it ends, it
\* stays one for as long as the parent withholds its wait, it leaves that
\* state only by the parent's os.wait() after the sleep, which reaps it, and
\* the parent prints that the zombie is gone only when that has happened.
Thm_C6_ZombieUntilParentWaits ==
  /\ [](task = "zombie" => C6_GoneOnlyAfterReap)
  /\ [][task = "zombie" => (C6_ExitMakesZombie /\ C6_ZombieUntilWait)]_vars

\* The sleep is over, the child has ended and is still a zombie: the wait
\* that reaps it is the parent's next step.
Wit_C6_ZombieWhenSleepEnds ==
  /\ task = "zombie"
  /\ pc = "z_wait"
  /\ proc[pid].st = "zombie"
  /\ proc[pid].ppid = ParentPid
  /\ pid \notin reaped

\* What an inspection has read of its target so far.
ReadNothing ==
  /\ insp.status = "unread"
  /\ insp.exe = "unread"
  /\ insp.nfds = -1
  /\ insp.fdres = <<>>

\* C7 as stated: whenever the inspected pid is one the parent has reaped with
\* a wait call, the inspection reports that the process does not exist and
\* reads nothing.
Cex_C7_ReapedPidNeverFound ==
  (insp.pc # "idle" /\ insp.hist # "never") =>
    (insp.pc = "notfound" /\ ReadNothing)

\* C7, amended: inspecting a pid the parent has reaped, and that no fork has
\* handed out again since, reports that the process does not exist and reads
\* nothing; inspecting a process that has ended but has not been waited for
\* passes the existence check and goes on to the status read, which fails
\* only when the record has gone in between.
Thm_C7_ReapedPidNotFound ==
  /\ insp.hist = "reaped" => (insp.pc = "notfound" /\ ReadNothing)
  /\ insp.chk = "zombie" =>
       /\ insp.pc # "notfound"
       /\ insp.pc = "status" \/ insp.status = "read" \/ insp.err = "vanished"

\* The zombie demo is over and the inspection of the reaped child's pid has
\* reported that it does not exist.
Wit_C7_ZombieGoneAfterWait ==
  /\ task = "zombie"
  /\ pc = "done"
  /\ insp.target = pid
  /\ insp.hist = "reaped"
  /\ insp.pc = "notfound"

\* C8 as stated: in the orphan demo the parent never waits, and the parent id
\* the child prints after its sleep is neither the original parent's pid nor
\* the child's own: by then the parent has exited and the child has been
\* given to the system reaper.
Cex_C8_SecondReadSeesNewParent ==
  task = "orphan" =>
    /\ reaped = {}
    /\ oppid.second # 0 =>
         /\ pc = "exited"
         /\ oppid.second # ParentPid
         /\ oppid.second # oppid.child

Thm_C10_PerDescriptorErrors ==
  insp.nfds >= 0 =>
    /\ insp.pc \in {"fds", "done"}
    /\ insp.err = "-"
    /\ Len(insp.fdres) <= insp.nfds
    /\ insp.pc = "done" <=> Len(insp.fdres) = insp.nfds
    /\ \A k \in 1..Len(insp.fdres) : insp.fdres[k] \in {"ok", "err"}

\* The first listed descriptor could not be resolved, the one after it was.
Wit_C10_ResolvedAfterFailure ==
  /\ insp.pc = "done"
  /\ insp.nfds >= 2
  /\ insp.fdres[1] = "err"
  /\ insp.fdres[2] = "ok"

\* C11 as stated: a failed read of one field does not end the inspection;
\* the fields after it are still read. The inspection then ends in its error
\* report only when the failed field is the last one, the descriptor
\* listing, with the status record and the executable path already read.
Cex_C11_RemainingFieldsRead ==
  insp.pc = "error" => (insp.status = "read" /\ insp.exe = "read")

\* C12 as stated: in bulk spawn, spawn+exec and the priority demo a fork that
\* fails does not abort the run: the parent goes on running (it never ends
\* with the exception), and no child it forked is left behind unwaited in
\* the hands of the system reaper.
Cex_C12_SpawnFailureDoesNotAbort ==
  task \in {"task1", "task2", "priority"} =>
    /\ pc # "raised"
    /\ proc[ParentPid].st = "running"
    /\ \A c \in PoolPids : proc[c].st # "free" => proc[c].ppid = ParentPid

\* The command line supplies at least one of the six selectors.
Supplied(a) ==
  \/ a.task1 # {}
  \/ a.task2 # {}
  \/ a.zombie
  \/ a.orphan
  \/ a.inspect # {}
  \/ a.priority

TaskNames == {"task1", "task2", "zombie", "orphan", "inspect", "priority"}

\* C13 as stated: the dispatch of main runs exactly one task function for
\* every command line that supplies at least one selector, and for a command
\* line that supplies none it prints the usage guidance, runs no task and
\* ends without error.
Cex_C13_ExactlyOneSelectorHonored ==
  [][pc = "parsed" =>
       IF Supplied(args)
       THEN task' \in TaskNames
       ELSE task' = "usage" /\ pc' = "usage" /\ proc' = proc]_vars

\* The child was forked for a command whose image replacement fails.
ExecWillFail(c) == ExecOutcome(proc[c].cmd) # "replaced"

\* The step a spawn+exec child takes out of its try block when the
\* replacement fails ends it, with a non-zero exit code and no signal.
C14_FailureEndsChild ==
  \A c \in PoolPids :
    (proc[c].st = "running" /\ proc[c].cpc = "t2_exec" /\ ExecWillFail(c)
       /\ proc'[c] # proc[c]) =>
      /\ proc'[c].st = "zombie"
      /\ ExitCode(proc'[c].status) # 0
      /\ proc'[c].status % 256 = 0

\* A child of spawn+exec is before its exec, runs the image that replaced
\* it, or has ended; it has no children, every fork is the parent's (at most
\* one per command), and a child whose replacement failed and that has ended
\* carries a non-zero exit code.
C14_ChildStaysInBranch ==
  /\ nforks <= n
  /\ pc = "done" => proc[ParentPid].st = "running"
  /\ \A c \in PoolPids :
       proc[c].st # "free" =>
         /\ Children(c) = {}
         /\ proc[c].st = "running" => proc[c].cpc \in {"t2_exec", "image"}
         /\ (proc[c].st = "zombie" /\ ExecWillFail(c)) =>
              (ExitCode(proc[c].status) # 0 /\ proc[c].cpc # "image")

\* C14: in spawn+exec a child whose image replacement fails, for whatever
\* reason (unresolvable name, permission failure, empty command string), ends
\* with a non-zero exit code at that step; it never goes on in the command
\* loop, never forks, and the completion message is the parent's alone.
Thm_C14_FailedExecEndsChild ==
  /\ [](task = "task2" => C14_ChildStaysInBranch)
  /\ [][task = "task2" => C14_FailureEndsChild]_vars

\* The first command could not be executed for a reason other than an
\* unresolvable name; the parent has reaped its child with exit code 1 and
\* stands before the fork for the next command.
Wit_C14_OtherFailureReaped ==
  /\ task = "task2"
  /\ pc = "t2_fork"
  /\ i = 1
  /\ waited.cmd \in {"noperm", ""}
  /\ ExitCode(waited.status) = 1
  /\ Children(ParentPid) = {}

\* C15: in the priority demo the parent makes no wait before it has forked
\* all three children, it then makes three wait-any calls, each reaping one
\* child whichever that is, and it reaches its final message only with three
\* forks made and three distinct children reaped, none left.
Thm_C15_ForkAllThenWaitAll ==
  task = "priority" =>
    /\ pc = "p_fork" => (nforks = i /\ reaped = {} /\ waited = NoWait)
    /\ pc = "p_wait" =>
         /\ nforks = Len(nice_values)
         /\ Cardinality(reaped) = i
         /\ Cardinality(Children(ParentPid)) = Len(nice_values) - i
    /\ pc = "done" =>
         /\ nforks = Len(nice_values)
         /\ Cardinality(reaped) = Len(nice_values)
         /\ Children(ParentPid) = {}

\* The child forked last was the first to end and to be reaped, while the
\* two forked before it are still running.
Wit_C15_LastForkedReapedFirst ==
  /\ task = "priority"
  /\ pc = "p_wait"
  /\ i = 1
  /\ reaped = {pid}
  /\ \A c \in Children(ParentPid) : proc[c].st = "running"

\* C16 as stated: in the priority demo a child that has made its os.nice
\* call runs its workload with the niceness of the sequence value it was
\* forked for (19, 10 or 0), whatever niceness the parent was started with.
Cex_C16_ChildNicenessIsSequenceValue ==
  task = "priority" =>
    \A c \in PoolPids :
      (proc[c].st = "running" /\ proc[c].cpc = "p_work") =>
        proc[c].nice = proc[c].inc

\* The record <<kind, who>> has been emitted.
Logged(kind, who) == \E j \in 1..Len(sim.log) : sim.log[j] = <<kind, who>>

\* Every emission of <<kind2, who>> comes after an emission of <<kind1, who>>.
Precedes(kind1, kind2, who) ==
  \A j2 \in 1..Len(sim.log) :
    sim.log[j2] = <<kind2, who>> =>
      \E j1 \in 1..(j2 - 1) : sim.log[j1] = <<kind1, who>>

\* C17 as stated: in the startup simulation the records of each service are
\* emitted in the order launch, start, finish: its 'started' record never
\* comes without its 'Launched' record before it, nor its 'finished' record
\* without its 'started' record before it.
Cex_C17_LaunchStartFinishInOrder ==
  \A s \in Services :
    /\ Precedes("Launched", "started", services[s])
    /\ Precedes("started", "finished", services[s])

\* C18: in the startup simulation the main process joins no service before
\* it has started all three, and when it emits its final record every
\* service has emitted its finish record and has terminated; the final
\* record is the last one of the log.
Thm_C18_ShutdownAfterAllServices ==
  /\ sim.mpc \in {"announce", "join", "final", "exit"} =>
       \A s \in Services : sim.svc[s] # "new"
  /\ sim.mpc \in {"final", "exit"} =>
       \A s \in Services : sim.svc[s] = "exited"
  /\ Logged("shutdown", "MainProcess") =>
       /\ sim.mpc = "exit"
       /\ sim.log[Len(sim.log)] = <<"shutdown", "MainProcess">>
       /\ \A s \in Services :
            /\ sim.svc[s] = "exited"
            /\ Logged("finished", services[s])

\* The final record is out, and the service started last had finished
\* before the service started first did.
Wit_C18_ShutdownAfterReversedFinish ==
  /\ Logged("shutdown", "MainProcess")
  /\ \E j1, j2 \in 1..Len(sim.log) :
       /\ j1 < j2
       /\ sim.log[j1] = <<"finished", services[Len(services)]>>
       /\ sim.log[j2] = <<"finished", services[1]>>

\* A process of the pool is in the child branch of the loop that forked it,
\* or has ended there.
C19_InOwnBranch(c) ==
  /\ proc[c].ppid \in {ParentPid, InitPid}
  /\ Children(c) = {}
  /\ proc[c].st = "running" =>
       proc[c].cpc \in (IF task = "task1" THEN {"t1_child"}
                        ELSE {"p_nice", "p_work"})
  /\ proc[c].st = "zombie" => proc[c].cpc = "_exit"

\* The processes in the table are never more than the parent's forks, which
\* are never more than the loop asks for, and are all made when the parent
\* leaves the fork loop.
C19_CountIsParentsForks ==
  LET want == IF task = "task1" THEN n ELSE Len(nice_values) IN
    /\ nforks <= want
    /\ Cardinality({c \in PoolPids : proc[c].st # "free"}) <= nforks
    /\ pc \in {"t1_wait", "p_wait", "done"} => nforks = want
    /\ \A c \in PoolPids : proc[c].st # "free" => C19_InOwnBranch(c)

\* A process enters the table only by a fork step of the parent, as its
\* child, and a process leaves it only by a wait of its parent (or of the
\* system reaper once the parent is gone).
C19_OnlyParentForksAndWaits ==
  \A c \in PoolPids :
    /\ (proc[c].st = "free" /\ proc'[c].st # "free") =>
         /\ pc \in {"t1_fork", "p_fork"}
         /\ proc[ParentPid].st = "running"
         /\ nforks' = nforks + 1
         /\ pid' = c
         /\ proc'[c].ppid = ParentPid
    /\ (proc[c].st # "free" /\ proc'[c].st = "free") =>
         /\ proc[c].st = "zombie"
         /\ (proc[c].ppid = ParentPid => pc \in {"t1_wait", "p_wait"})

\* C19: in bulk spawn and the priority demo every child ends inside its own
\* branch of the fork: only the parent forks and waits, no child has a child,
\* and the processes created are the parent's forks alone, N of them in bulk
\* spawn and three in the priority demo once the fork loop is done.
Thm_C19_ChildrenEndInTheirBranch ==
  /\ [](task \in {"task1", "priority"} => C19_CountIsParentsForks)
  /\ [][(task \in {"task1", "priority"}) => C19_OnlyParentForksAndWaits]_vars

\* Bulk spawn with at least two children, all of them ended in their branch
\* and none reaped yet: the parent is about to make its first wait.
Wit_C19_AllChildrenEndedUnreaped ==
  /\ task = "task1"
  /\ pc = "t1_wait"
  /\ n >= 2
  /\ nforks = n
  /\ reports = <<>>
  /\ Cardinality(ZombieChildren(ParentPid)) = n

\* The parent stands at a wait call.
AtWait == pc \in {"t1_wait", "t2_wait", "z_wait", "p_wait"}

ForkPositions == {"t1_fork", "t2_fork", "z_fork", "o_fork", "p_fork"}

\* The wait the parent is about to make has a child to wait for.
C20_WaitHasChild ==
  /\ pc = "t1_wait" => Task1WaitTarget \in Children(ParentPid)
  /\ pc \in {"t2_wait", "z_wait", "p_wait"} => Children(ParentPid) # {}

\* A step of the parent from a wait call does not end it with an exception:
\* only a fork does that.
C20_WaitNeverRaises ==
  (pc # "raised" /\ pc' = "raised") => (pc \in ForkPositions /\ ~AtWait)

\* C20: whenever the parent is at a wait call (os.wait() in spawn+exec, the
\* zombie demo and the priority demo, os.waitpid(child_pid, 0) in bulk
\* spawn) it has a running or zombie child that the call matches, so no wait
\* raises ChildProcessError.
Thm_C20_NoWaitWithoutChild ==
  /\ [](AtWait => C20_WaitHasChild)
  /\ [][C20_WaitNeverRaises]_vars

\* The parent of the priority demo is at its third wait with exactly one
\* child left, which is still running: the call will block, not fail.
Wit_C20_LastWaitOneChildLeft ==
  /\ task = "priority"
  /\ pc = "p_wait"
  /\ i = Len(nice_values) - 1
  /\ Cardinality(Children(ParentPid)) = 1
  /\ \A c \in Children(ParentPid) : proc[c].st = "running"

Next ==
  \/ \E N \in 0..MaxN : Call(task1_create_processes(N))
  \/ Task1Fork
  \/ Task1ForkFails
  \/ Task1Wait
  \/ Task1ChildExit
  \/ \E k \in 0..MaxCmds : Call(task2_execute_commands(k))
  \/ Task2Fork
  \/ Task2ForkFails
  \/ Task2Wait
  \/ Task2ChildExec
  \/ Task2ImageExit
  \/ Call(task3_zombie_process)
  \/ ZombieFork
  \/ ZombieForkFails
  \/ ZombieChildExit
  \/ ZombieSleepEnds
  \/ ZombieWait
  \/ Call(task3_orphan_process)
  \/ OrphanFork
  \/ OrphanForkFails
  \/ OrphanParentExit
  \/ OrphanChildFirst
  \/ OrphanChildSecond
  \/ OrphanChildExit
  \/ Call(task5_process_prioritization)
  \/ PriorityFork
  \/ PriorityForkFails
  \/ PriorityWait
  \/ PriorityChildNice
  \/ PriorityChildExit
  \/ InspectStatus
  \/ InspectExe
  \/ InspectListFd
  \/ InspectFd
  \/ parse_args
  \/ main
  \/ InitReap

Spec == Init /\ [][Next]_vars

\* The zombie demo or spawn+exec with an inspection running beside it from
\* another terminal, started at any moment against any pid.
NextInspect ==
  \/ OtherInvocation
  \/ InspectStatus
  \/ InspectExe
  \/ InspectListFd
  \/ InspectFd
  \/ Call(task3_zombie_process)
  \/ ZombieFork
  \/ ZombieForkFails
  \/ ZombieChildExit
  \/ ZombieSleepEnds
  \/ ZombieWait
  \/ \E k \in 0..MaxCmds : Call(task2_execute_commands(k))
  \/ Task2Fork
  \/ Task2ForkFails
  \/ Task2Wait
  \/ Task2ChildExec
  \/ Task2ImageExit
  \/ InitReap

SpecInspect == Init /\ [][NextInspect]_vars

\* system_startup_simulation.py run as a script: its main block and the
\* three service processes it starts.
NextStartup ==
  \/ SimBoot
  \/ SimStart
  \/ SimStartFails
  \/ SimLogLaunched
  \/ SimAllLaunched
  \/ SimJoin
  \/ SimShutdown
  \/ \E s \in Services : ServiceStarted(s)
  \/ \E s \in Services : ServiceFinished(s)
  \/ \E s \in Services : ServiceExit(s)

SpecStartup == Init /\ [][NextStartup]_vars
====
